---- MODULE Spec2Model ----
(***************************************************************************)
(* MQTTStat: the MQTT agent (mqtt_stat/client/__init__.py), the alarm      *)
(* functions it starts and the classes VolumeControl and AlarmAsset        *)
(* (mqtt_stat/audio/__init__.py), and AlarmWindow (mqtt_stat/GUI), as      *)
(* state machines.                                                         *)
(*                                                                         *)
(* Volumes are integers in units of 0.05 (VolOne = 1.0); intervals are     *)
(* integers in units of 0.5 s.                                             *)
(***************************************************************************)
EXTENDS Integers, Sequences, FiniteSets, TLC

VARIABLES
    self,         \* the MQTTClient object's attributes (<<>> before __init__)
    calls,        \* the calls made on self.client (paho mqtt.Client), in order
    pc,           \* where each execution context is
    last,         \* the latest handler invocation and how it ended
    battery,      \* what psutil.sensors_battery() returns now
    ssid,         \* what NETWORK_INFO.get_network_name() returns now
    alarm_event,  \* the module-global threading.Event of mqtt_stat.audio
    threads,      \* the alarm threads created by start_alarm
    snd_thread,   \* start_alarm's local snd_thread, per context
    sound,        \* whether the module global `sound` is bound
    stdin,        \* whether input() can read a line
    kwargs,       \* the keyword arguments the application passes to start_alarm
    mixer,        \* the volume of the pygame Sound a VolumeControl is given
    vc,           \* the VolumeControl object's attributes
    windows,      \* the AlarmWindow objects' attributes
    ALARM_EVENT,  \* the class attribute AlarmAsset.ALARM_EVENT
    assets,       \* the AlarmAsset objects' attributes
    olast         \* the latest call on one of these objects and how it ended

vars == <<self, calls, pc, last, battery, ssid, alarm_event, threads,
          snd_thread, sound, stdin, kwargs, mixer, vc, windows, ALARM_EVENT,
          assets, olast>>

clientVars == <<self, calls, battery, ssid>>
alarmVars == <<alarm_event, threads, snd_thread>>
volumeVars == <<mixer, vc>>
objectVars == <<volumeVars, windows, ALARM_EVENT, assets, olast>>
envVars == <<sound, stdin, kwargs, objectVars>>
\* what the calls on a VolumeControl, an AlarmWindow, an AlarmAsset leave alone
restVars == <<clientVars, pc, last, alarmVars, sound, stdin, kwargs>>
notVolume == <<restVars, windows, ALARM_EVENT, assets>>
notWindow == <<restVars, volumeVars, ALARM_EVENT, assets>>
notAsset == <<restVars, volumeVars, windows>>

-----------------------------------------------------------------------------
(* Bounds of the model *)

MaxCalls == 8      \* recorded calls on self.client
MaxThreads == 2    \* alarm threads that exist at once
MaxWindows == 2    \* AlarmWindow objects
MaxAssets == 2     \* AlarmAsset objects

-----------------------------------------------------------------------------
(* Values *)

VolOne == 20               \* 1.0 in units of 0.05
DefaultInterval == 2       \* alarm(interval=1), in units of 0.5 s
DefaultVolumeIncrement == 2 \* alarm(volume_increment=0.1)
DefaultVolumeStart == 2    \* alarm(volume_start=0.1)
DefaultVolumeMax == 20     \* alarm(volume_max=1.0)

\* The execution contexts: the one that services MQTT messages and a second
\* application thread that uses the audio module directly.
Contexts == {"svc", "app"}
ThreadIds == 1 .. MaxThreads

\* MQTTClient(broker, port, listen_topic, reply_topic, birth_topic, lwt_topic)
ConfigAttrs ==
    [broker |-> "mqtt.example.com", port |-> 1883,
     listen_topic |-> "sensors/temperature", reply_topic |-> "sensors/response",
     birth_topic |-> "client/birth", lwt_topic |-> "client/lwt"]

constructed == DOMAIN self # {}

\* Python values, tagged by type
PyNone == [none |-> TRUE]
PyBool(b) == [bool |-> b]
PyInt(n) == [int |-> n]
PyStr(s) == [str |-> s]

\* json.dumps of one value
JsonEncode(v) ==
    IF "none" \in DOMAIN v THEN "null"
    ELSE IF "bool" \in DOMAIN v THEN (IF v.bool THEN "true" ELSE "false")
    ELSE IF "int" \in DOMAIN v THEN ToString(v.int)
    ELSE "\"" \o v.str \o "\""

RECURSIVE JsonItems(_)
JsonItems(d) ==
    IF d = <<>> THEN ""
    ELSE "\"" \o d[1][1] \o "\": " \o JsonEncode(d[1][2])
         \o (IF Len(d) > 1 THEN ", " ELSE "") \o JsonItems(Tail(d))

\* json.dumps of a dict, given as its items in insertion order
JsonDumps(d) == "{" \o JsonItems(d) \o "}"

-----------------------------------------------------------------------------
(* The device-info providers *)

\* the readings the environment moves between: psutil's battery (None
\* without one) and the network name
Snapshots ==
    {<<PyNone, "HomeNet">>,
     <<[percent |-> 87, power_plugged |-> TRUE], "HomeNet">>,
     <<[percent |-> 15, power_plugged |-> FALSE], "Not connected to a network.">>}

\* get_battery_info(): a dict when a battery is present, a str otherwise
get_battery_info ==
    IF battery # PyNone
    THEN [percent |-> battery.percent, power_plugged |-> battery.power_plugged]
    ELSE PyStr("No battery information available.")

get_network_name == ssid

-----------------------------------------------------------------------------
(* The record of the latest handler invocation *)

NoHandler ==
    [handler |-> "", cmd |-> "", data |-> {}, payload |-> "", rc |-> 0,
     outcome |-> "", ncalls |-> 0, dispatched |-> 0, invoked |-> 0,
     started |-> 0, tick |-> 0]

\* outcome is "returned", "blocked" (the call has not returned) or the name of
\* the exception that left the handler
Returned(h) == [h EXCEPT !.outcome = "returned"]
Blocked(h) == [h EXCEPT !.outcome = "blocked"]
Raised(h, exc) == [h EXCEPT !.outcome = exc]

-----------------------------------------------------------------------------
(* Calls on self.client *)

WillSet(topic, payload, qos, retain) ==
    [op |-> "will_set", topic |-> topic, payload |-> payload, qos |-> qos, retain |-> retain]
ClientPublish(topic, payload, qos, retain) ==
    [op |-> "publish", topic |-> topic, payload |-> payload, qos |-> qos, retain |-> retain]
ClientSubscribe(topic) == [op |-> "subscribe", topic |-> topic]
ClientConnect(host, port, keepalive) ==
    [op |-> "connect", host |-> host, port |-> port, keepalive |-> keepalive]
LoopForever == [op |-> "loop_forever"]

Room(n) == Len(calls) + n <= MaxCalls

-----------------------------------------------------------------------------
(* Inbound payloads and json.loads *)

\* msg.payload, as bytes; "<0x80>" stands for the single byte 0x80, which is
\* not UTF-8 text
Payloads ==
    {"{\"command\": \"get_status\"}", "{\"command\": \"find\"}",
     "{\"status\": \"needed\"}", "{\"status\": \"alert\"}",
     "{}", "[1, 2]", "5", "not json", "<0x80>"}

Parsed(kind, d) == [exc |-> "", kind |-> kind, dict |-> d]
LoadsRaises(exc) == [exc |-> exc, kind |-> "", dict |-> <<>>]

\* json.loads(msg.payload) on the payloads above
JsonLoads(p) ==
    CASE p = "{\"command\": \"get_status\"}" -> Parsed("dict", [command |-> "get_status"])
      [] p = "{\"command\": \"find\"}" -> Parsed("dict", [command |-> "find"])
      [] p = "{\"status\": \"needed\"}" -> Parsed("dict", [status |-> "needed"])
      [] p = "{\"status\": \"alert\"}" -> Parsed("dict", [status |-> "alert"])
      [] p = "{}" -> Parsed("dict", <<>>)
      [] p = "[1, 2]" -> Parsed("list", <<>>)
      [] p = "5" -> Parsed("int", <<>>)
      [] p = "<0x80>" -> LoadsRaises("UnicodeDecodeError")
      [] OTHER -> LoadsRaises("JSONDecodeError")

\* dict.get(key), with "" for None
DictGet(d, key) == IF key \in DOMAIN d THEN d[key] ELSE ""

-----------------------------------------------------------------------------
(* mqtt_stat.audio: the alarm thread *)

\* left is what remains of sleep(interval); stopped records that alarm_event
\* was set while the thread was in its loop, early that it was set after the
\* thread was started and before it entered the loop
FreeThread ==
    [pc |-> "free", interval |-> 0, volume_increment |-> 0, volume_start |-> 0,
     volume_max |-> 0, volume |-> 0, prev |-> -1, left |-> 0, exc |-> "",
     stopped |-> FALSE, early |-> FALSE]

Terminated(exc) == [FreeThread EXCEPT !.pc = "done", !.exc = exc]

KwArg(kw, name, default) == IF name \in DOMAIN kw THEN kw[name] ELSE default

\* Thread(target=alarm, kwargs=kwargs): alarm's parameters with its defaults
NewThread(kw) ==
    [FreeThread EXCEPT
        !.pc = "start",
        !.interval = KwArg(kw, "interval", DefaultInterval),
        !.volume_increment = KwArg(kw, "volume_increment", DefaultVolumeIncrement),
        !.volume_start = KwArg(kw, "volume_start", DefaultVolumeStart),
        !.volume_max = KwArg(kw, "volume_max", DefaultVolumeMax)]

Ringing(th) == th.pc \in {"test", "play", "sleep"}

\* A context is inside start_alarm with thread t as its snd_thread
Held(t) == \E c \in Contexts : snd_thread[c] = t

\* what a finished thread leaves: its Thread object while start_alarm still
\* holds it, nothing otherwise
Finish(t, exc) == IF Held(t) THEN Terminated(exc) ELSE FreeThread

\* alarm(): the argument checks before the try block
AlarmCheck(th) ==
    IF th.interval <= 0 THEN "ValueError"
    ELSE IF \E v \in {th.volume_increment, th.volume_start, th.volume_max} :
                ~(0 <= v /\ v <= VolOne)
         THEN "ValueError"
    ELSE ""

Min(a, b) == IF a <= b THEN a ELSE b

\* (variant: a ramp step without the cap at volume_max)
NextVolumeNoCap(th) == th.volume + th.volume_increment

\* (variant: a ramp step that caps the volume and does not raise it)
NextVolumeNoRaise(th) == Min(th.volume, th.volume_max)

\* volume += volume_increment; volume = min(volume, volume_max)
NextVolume(th) == Min(th.volume + th.volume_increment, th.volume_max)

\* the thread enters alarm(): checks, then volume = volume_start
AlarmEnter(t) ==
    /\ threads[t].pc = "start"
    /\ LET th == threads[t] IN
       threads' = [threads EXCEPT ![t] =
          IF AlarmCheck(th) # "" THEN Finish(t, AlarmCheck(th))
          ELSE [th EXCEPT !.pc = "test", !.volume = th.volume_start]]
    /\ UNCHANGED <<clientVars, pc, last, alarm_event, snd_thread, envVars>>

\* while not alarm_event.is_set()
AlarmTest(t) ==
    /\ threads[t].pc = "test"
    /\ LET th == threads[t] IN
       threads' = [threads EXCEPT ![t] =
          IF alarm_event THEN Finish(t, "") ELSE [th EXCEPT !.pc = "play"]]
    /\ UNCHANGED <<clientVars, pc, last, alarm_event, snd_thread, envVars>>

\* play_sound(volume): NameError when the global `sound` is unbound, caught
\* by alarm's `except Exception`
AlarmPlay(t) ==
    /\ threads[t].pc = "play"
    /\ LET th == threads[t] IN
       threads' = [threads EXCEPT ![t] =
          IF sound = "bound" THEN [th EXCEPT !.pc = "sleep", !.left = th.interval]
          ELSE Finish(t, "NameError")]
    /\ UNCHANGED <<clientVars, pc, last, alarm_event, snd_thread, envVars>>

\* time passes in sleep(interval), which nothing interrupts
AlarmTick(t) ==
    /\ threads[t].pc = "sleep"
    /\ threads[t].left > 0
    /\ threads' = [threads EXCEPT ![t].left = @ - 1]
    /\ UNCHANGED <<clientVars, pc, last, alarm_event, snd_thread, envVars>>

\* sleep(interval) ends; the volume is raised and capped
AlarmSleep(t) ==
    /\ threads[t].pc = "sleep"
    /\ threads[t].left = 0
    /\ LET th == threads[t] IN
       threads' = [threads EXCEPT ![t] =
          [th EXCEPT !.pc = "test", !.prev = th.volume, !.volume = NextVolume(th)]]
    /\ UNCHANGED <<clientVars, pc, last, alarm_event, snd_thread, envVars>>

-----------------------------------------------------------------------------
(* mqtt_stat.audio: start_alarm *)

FreeIds == {t \in ThreadIds : threads[t].pc = "free"}
LowestFree == CHOOSE t \in FreeIds : \A u \in FreeIds : t <= u

\* (variant: a start_alarm that does not clear the event)
start_alarmNoClear(c, kw, h) ==
    /\ FreeIds # {}
    /\ alarm_event' = alarm_event
    /\ threads' = [threads EXCEPT ![LowestFree] = NewThread(kw)]
    /\ snd_thread' = [snd_thread EXCEPT ![c] = LowestFree]
    /\ pc' = [pc EXCEPT ![c] = "sa_test"]
    /\ last' = [last EXCEPT ![c] = Blocked([h EXCEPT !.started = 1])]

\* alarm_event.clear(); snd_thread = Thread(target=alarm, kwargs=kwargs);
\* snd_thread.start(); h is the handler the context is in
start_alarm(c, kw, h) ==
    /\ FreeIds # {}
    /\ alarm_event' = FALSE
    /\ threads' = [threads EXCEPT ![LowestFree] = NewThread(kw)]
    /\ snd_thread' = [snd_thread EXCEPT ![c] = LowestFree]
    /\ pc' = [pc EXCEPT ![c] = "sa_test"]
    /\ last' = [last EXCEPT ![c] = Blocked([h EXCEPT !.started = 1])]

\* while not alarm_event.is_set()
StartAlarmTest(c) ==
    /\ pc[c] = "sa_test"
    /\ pc' = [pc EXCEPT ![c] = IF alarm_event THEN "sa_join" ELSE "sa_input"]
    /\ UNCHANGED <<clientVars, last, alarmVars, envVars>>

\* alarm_event.set() reaches every thread that is in its loop
Signalled(ths) ==
    [t \in ThreadIds |->
        IF Ringing(ths[t]) THEN [ths[t] EXCEPT !.stopped = TRUE]
        ELSE IF ths[t].pc = "start" THEN [ths[t] EXCEPT !.early = TRUE]
        ELSE ths[t]]

\* input(...) returns a line: alarm_event.set()
StartAlarmEnter(c) ==
    /\ pc[c] = "sa_input"
    /\ stdin = "tty"
    /\ alarm_event' = TRUE
    /\ threads' = Signalled(threads)
    /\ pc' = [pc EXCEPT ![c] = "sa_test"]
    /\ UNCHANGED <<clientVars, last, snd_thread, envVars>>

\* input(...) is interrupted: KeyboardInterrupt is caught, the loop goes on
StartAlarmInterrupt(c) ==
    /\ pc[c] = "sa_input"
    /\ stdin = "tty"
    /\ pc' = [pc EXCEPT ![c] = "sa_test"]
    /\ UNCHANGED <<clientVars, last, alarmVars, envVars>>

\* input(...) on a closed stdin: EOFError leaves start_alarm, the thread is
\* neither stopped nor joined
StartAlarmEOF(c) ==
    /\ pc[c] = "sa_input"
    /\ stdin = "closed"
    /\ pc' = [pc EXCEPT ![c] = "idle"]
    /\ last' = [last EXCEPT ![c] = Raised(@, "EOFError")]
    /\ snd_thread' = [snd_thread EXCEPT ![c] = 0]
    /\ threads' = [threads EXCEPT ![snd_thread[c]] =
          IF @.pc = "done" THEN FreeThread ELSE @]
    /\ UNCHANGED <<clientVars, alarm_event, envVars>>

\* (variant: a start_alarm that returns without joining its thread)
StartAlarmJoinNoWait(c) ==
    /\ pc[c] = "sa_join"
    /\ pc' = [pc EXCEPT ![c] = "idle"]
    /\ last' = [last EXCEPT ![c] = Returned(@)]
    /\ snd_thread' = [snd_thread EXCEPT ![c] = 0]
    /\ threads' = [threads EXCEPT ![snd_thread[c]] =
          IF @.pc = "done" THEN FreeThread ELSE @]
    /\ UNCHANGED <<clientVars, alarm_event, envVars>>

\* snd_thread.join() returns; start_alarm returns
StartAlarmJoin(c) ==
    /\ pc[c] = "sa_join"
    /\ threads[snd_thread[c]].pc = "done"
    /\ pc' = [pc EXCEPT ![c] = "idle"]
    /\ last' = [last EXCEPT ![c] = Returned(@)]
    /\ snd_thread' = [snd_thread EXCEPT ![c] = 0]
    /\ threads' = [threads EXCEPT ![snd_thread[c]] = FreeThread]
    /\ UNCHANGED <<clientVars, alarm_event, envVars>>

-----------------------------------------------------------------------------
(* mqtt_stat.client: MQTTClient *)

\* a new invocation of handler `name` in context c; tick tells it from the
\* invocation before it
Handler(c, name) == [NoHandler EXCEPT !.handler = name, !.tick = 1 - last[c].tick]

\* the default ramp find_service passes to start_alarm: interval=1.5,
\* volume_increment=0.05, volume_start=0.05
FindInterval == 3
FindVolumeIncrement == 1
FindVolumeStart == 1
FindKwargs ==
    [interval |-> FindInterval, volume_increment |-> FindVolumeIncrement,
     volume_start |-> FindVolumeStart]

\* (variant: a constructor that registers no last will)
InitCallsNoWill(attrs) == <<>>

\* __init__: the last will, registered on self.client
InitCalls(attrs) ==
    <<WillSet(attrs.lwt_topic, JsonDumps(<< <<"status", PyStr("offline")>> >>), 1, TRUE)>>

\* publish(data): the publish, then the statements of the misplaced run()
PublishCalls(data) ==
    <<ClientPublish(self.reply_topic, JsonDumps(data), 1, FALSE),
      ClientConnect(self.broker, self.port, 60),
      LoopForever>>

\* (variant: on_connect that subscribes before it publishes the birth message)
OnConnectCallsSwapped(rc) ==
    IF rc = 0
    THEN <<ClientSubscribe(self.listen_topic),
           ClientPublish(self.birth_topic, JsonDumps(<< <<"status", PyStr("online")>> >>), 1, TRUE)>>
    ELSE <<>>

\* (variant: on_connect that does not look at rc)
OnConnectCallsAnyRc(rc) ==
    <<ClientPublish(self.birth_topic, JsonDumps(<< <<"status", PyStr("online")>> >>), 1, TRUE),
      ClientSubscribe(self.listen_topic)>>

\* on_connect(client, userdata, flags, rc)
OnConnectCalls(rc) ==
    IF rc = 0
    THEN <<ClientPublish(self.birth_topic, JsonDumps(<< <<"status", PyStr("online")>> >>), 1, TRUE),
           ClientSubscribe(self.listen_topic)>>
    ELSE <<>>

\* (variant: a response that reports a battery reading taken once, not now)
StatusResponseStale ==
    << <<"status", PyStr("responded")>>,
       <<"network_ssid", PyStr(get_network_name)>>,
       <<"battery_level", PyInt(87)>>,
       <<"battery_charging", PyBool(TRUE)>> >>

\* get_status: the response dict, from the providers as they are now
StatusResponse ==
    << <<"status", PyStr("responded")>>,
       <<"network_ssid", PyStr(get_network_name)>>,
       <<"battery_level", PyInt(get_battery_info.percent)>>,
       <<"battery_charging", PyBool(get_battery_info.power_plugged)>> >>

\* (variant: a table with a handler under a third name)
commandsWithReboot == {"get_status", "find", "reboot"}

\* execute_command's table
commands == {"get_status", "find"}

\* the number of times on_message hands a decoded payload to execute_command
OnMessageDispatches(p) == 0

\* how on_message(client, userdata, msg) ends for payload p
OnMessageOutcome(p) ==
    LET r == JsonLoads(p) IN
    IF r.exc = "JSONDecodeError" THEN "returned"
    ELSE IF r.exc # "" THEN r.exc
    ELSE IF r.kind # "dict" THEN "AttributeError"
    ELSE IF DictGet(r.dict, "status") = "needed" THEN "AttributeError"
    ELSE IF DictGet(r.dict, "status") = "alert" THEN "NameError"
    ELSE "returned"

MQTTClientInit ==
    /\ ~constructed
    /\ pc["svc"] = "idle"
    /\ self' = ConfigAttrs
    /\ calls' = calls \o InitCalls(ConfigAttrs)
    /\ last' = [last EXCEPT !["svc"] =
          Returned([Handler("svc", "__init__") EXCEPT !.ncalls = Len(InitCalls(ConfigAttrs))])]
    /\ UNCHANGED <<pc, battery, ssid, alarmVars, envVars>>

\* client.run(): the class has no run attribute (run is a function local to
\* publish)
Run ==
    /\ constructed
    /\ pc["svc"] = "idle"
    /\ last' = [last EXCEPT !["svc"] = Raised(Handler("svc", "run"), "AttributeError")]
    /\ UNCHANGED <<clientVars, pc, alarmVars, envVars>>

\* publish(data), from handler h: does not return, loop_forever is running
publish(data, h) ==
    /\ Room(Len(PublishCalls(data)))
    /\ calls' = calls \o PublishCalls(data)
    /\ pc' = [pc EXCEPT !["svc"] = "loop"]
    /\ last' = [last EXCEPT !["svc"] =
          Blocked([h EXCEPT !.ncalls = Len(PublishCalls(data))])]
    /\ UNCHANGED alarmVars

PublishData == { << <<"status", PyStr("alerted")>> >> }

Publish(data) ==
    /\ constructed
    /\ pc["svc"] = "idle"
    /\ publish(data, Handler("svc", "publish"))
    /\ UNCHANGED <<self, battery, ssid, envVars>>

\* get_status(): battery_info['percent'] on the str that get_battery_info
\* returns without a battery is a TypeError
get_status(h) ==
    IF "str" \in DOMAIN get_battery_info
    THEN /\ last' = [last EXCEPT !["svc"] = Raised(h, "TypeError")]
         /\ UNCHANGED <<calls, pc, alarmVars>>
    ELSE publish(StatusResponse, h)

find_service(h) ==
    /\ start_alarm("svc", FindKwargs, h)
    /\ UNCHANGED calls

Commands == {"get_status", "find", "reboot"}
\* the keys of the data mapping
DataKeys == {{}, {"volume"}}

\* execute_command(command, data): commands[command](**data); neither handler
\* takes a keyword argument; invoked counts the calls that reach the handler
ExecuteCommand(command, data) ==
    /\ constructed
    /\ pc["svc"] = "idle"
    /\ LET h == [Handler("svc", "execute_command") EXCEPT !.cmd = command, !.data = data] IN
       IF command \in commands
       THEN IF data # {}
            THEN /\ last' = [last EXCEPT !["svc"] = Raised(h, "TypeError")]
                 /\ UNCHANGED <<calls, pc, alarmVars>>
            ELSE LET g == [h EXCEPT !.invoked = 1] IN
                 IF command = "get_status" THEN get_status(g) ELSE find_service(g)
       ELSE /\ last' = [last EXCEPT !["svc"] = Returned(h)]
            /\ UNCHANGED <<calls, pc, alarmVars>>
    /\ UNCHANGED <<self, battery, ssid, envVars>>

ReturnCodes == {0, 1, 5}

\* the network loop calls on_connect with the broker's CONNACK code
OnConnect(rc) ==
    /\ pc["svc"] = "loop"
    /\ Room(Len(OnConnectCalls(rc)))
    /\ calls' = calls \o OnConnectCalls(rc)
    /\ last' = [last EXCEPT !["svc"] =
          Returned([Handler("svc", "on_connect") EXCEPT !.rc = rc, !.ncalls = Len(OnConnectCalls(rc))])]
    /\ UNCHANGED <<self, pc, battery, ssid, alarmVars, envVars>>

\* the network loop calls on_message; an exception leaves loop_forever and the
\* publish call around it
OnMessage(p) ==
    /\ pc["svc"] = "loop"
    /\ last' = [last EXCEPT !["svc"] =
          [Handler("svc", "on_message") EXCEPT !.payload = p, !.outcome = OnMessageOutcome(p),
                                        !.dispatched = OnMessageDispatches(p)]]
    /\ pc' = [pc EXCEPT !["svc"] = IF OnMessageOutcome(p) = "returned" THEN "loop" ELSE "idle"]
    /\ UNCHANGED <<clientVars, alarmVars, envVars>>

\* the connection to the broker is lost while the network loop runs: __init__
\* registers on_connect and on_message only, so no code of the agent runs
Disconnect ==
    /\ pc["svc"] = "loop"
    /\ last' = [last EXCEPT !["svc"] = Returned(Handler("svc", "disconnect"))]
    /\ UNCHANGED <<clientVars, pc, alarmVars, envVars>>

\* the battery or the network changes (observed by the agent only when a
\* handler reads them, so between handlers is enough)
ProviderChange ==
    /\ pc["svc"] = "idle"
    /\ \E s \in Snapshots \ {<<battery, ssid>>} : battery' = s[1] /\ ssid' = s[2]
    /\ UNCHANGED <<self, calls, pc, last, alarmVars, envVars>>

-----------------------------------------------------------------------------
(* Calls on the objects of the audio and GUI classes *)

\* target is the object called, kw and arg the arguments, result what the
\* call returned
NoCall ==
    [op |-> "", target |-> 0, kw |-> <<>>, arg |-> 0, outcome |-> "",
     result |-> "", tick |-> 0]

\* a new call of operation op; tick tells it from the call before it
Call(op) == [NoCall EXCEPT !.op = op, !.tick = 1 - olast.tick]

-----------------------------------------------------------------------------
(* mqtt_stat.audio: VolumeControl *)

\* DEFAULTS['volume']
VolDefaultIncrement == 2   \* 'increment': 0.1
VolDefaultMax == 20        \* 'max': 1.0
VolDefaultStart == 2       \* 'start': 0.1
AssetDefaultInterval == 2  \* 'interval': 1, in units of 0.5 s

\* start is the private attribute __volume, which no method reads
NoVolumeControl == [exists |-> FALSE, increment |-> 0, max_volume |-> 0, start |-> 0]

\* (variant: an increment setter that accepts an increment equal to
\* max_volume)
IncrementCheckLax(new, maxv) ==
    IF new <= 0 THEN "ValueError"
    ELSE IF new > maxv THEN "ValueError"
    ELSE ""

\* the increment setter's checks
IncrementCheck(new, maxv) ==
    IF new <= 0 THEN "ValueError"
    ELSE IF new >= maxv THEN "ValueError"
    ELSE ""

\* the max_volume setter's checks
MaxVolumeCheck(new, inc) ==
    IF new <= 0 THEN "ValueError"
    ELSE IF new > VolOne THEN "ValueError"
    ELSE IF new <= inc THEN "ValueError"
    ELSE ""

\* the volume setter's checks
VolumeCheck(new, maxv) ==
    IF new > maxv THEN "ValueError"
    ELSE IF new < 0 THEN "ValueError"
    ELSE ""

\* self.sound.set_volume(v), as pygame documents Sound.set_volume: a value
\* below 0.0 leaves the volume as it is, a value above 1.0 sets 1.0
SoundSetVolume(v) ==
    IF v < 0 THEN mixer ELSE IF v > VolOne THEN VolOne ELSE v

\* self.volume: self.sound.get_volume()
volume == mixer

Max(a, b) == IF a >= b THEN a ELSE b

\* VolumeControl(sound, start_volume, max_volume, increment); an argument
\* that is None or not given is absent from kw
VolumeControlInit(kw) ==
    /\ LET maxv == KwArg(kw, "max_volume", VolDefaultMax)
           inc == KwArg(kw, "increment", VolDefaultIncrement)
           start == KwArg(kw, "start_volume", VolDefaultStart)
           c == [Call("VolumeControl") EXCEPT !.kw = kw]
       IN  IF IncrementCheck(inc, maxv) # ""
           THEN /\ olast' = Raised(c, IncrementCheck(inc, maxv))
                /\ UNCHANGED volumeVars
           ELSE /\ vc' = [exists |-> TRUE, increment |-> inc, max_volume |-> maxv,
                          start |-> start]
                /\ mixer' = SoundSetVolume(volume)
                /\ olast' = Returned(c)
    /\ UNCHANGED notVolume

\* self.volume = new, inside call c
VolumeSetter(new, c) ==
    IF VolumeCheck(new, vc.max_volume) # ""
    THEN /\ olast' = Raised(c, VolumeCheck(new, vc.max_volume))
         /\ UNCHANGED volumeVars
    ELSE /\ mixer' = SoundSetVolume(new)
         /\ olast' = Returned(c)
         /\ UNCHANGED vc

\* vc.increment = new
SetIncrement(new) ==
    /\ vc.exists
    /\ LET c == [Call("increment") EXCEPT !.arg = new] IN
       IF IncrementCheck(new, vc.max_volume) # ""
       THEN /\ olast' = Raised(c, IncrementCheck(new, vc.max_volume))
            /\ UNCHANGED volumeVars
       ELSE /\ vc' = [vc EXCEPT !.increment = new]
            /\ olast' = Returned(c)
            /\ UNCHANGED mixer
    /\ UNCHANGED notVolume

\* vc.max_volume = new
SetMaxVolume(new) ==
    /\ vc.exists
    /\ LET c == [Call("max_volume") EXCEPT !.arg = new] IN
       IF MaxVolumeCheck(new, vc.increment) # ""
       THEN /\ olast' = Raised(c, MaxVolumeCheck(new, vc.increment))
            /\ UNCHANGED volumeVars
       ELSE /\ vc' = [vc EXCEPT !.max_volume = new]
            /\ olast' = Returned(c)
            /\ UNCHANGED mixer
    /\ UNCHANGED notVolume

\* vc.volume = new
SetVolume(new) ==
    /\ vc.exists
    /\ VolumeSetter(new, [Call("volume") EXCEPT !.arg = new])
    /\ UNCHANGED notVolume

\* vc.decrease_volume(decrement): self.volume -= decrement
decrease_volume(decrement) ==
    /\ vc.exists
    /\ VolumeSetter(volume - decrement, [Call("decrease_volume") EXCEPT !.arg = decrement])
    /\ UNCHANGED notVolume

\* vc.increase_volume(increment): 0 stands for None too, since the method
\* takes `increment or self.increment`
increase_volume(increment) ==
    /\ vc.exists
    /\ LET inc == IF increment = 0 THEN vc.increment ELSE increment IN
       VolumeSetter(Min(vc.max_volume, volume + inc),
                    [Call("increase_volume") EXCEPT !.arg = increment])
    /\ UNCHANGED notVolume

\* vc.set_volume(v)
set_volume(v) ==
    /\ vc.exists
    /\ VolumeSetter(Max(0, Min(vc.max_volume, v)), [Call("set_volume") EXCEPT !.arg = v])
    /\ UNCHANGED notVolume

-----------------------------------------------------------------------------
(* mqtt_stat.GUI: AlarmWindow *)

WindowIds == 1 .. MaxWindows

NoWindow ==
    [exists |-> FALSE, built |-> FALSE, layout |-> "None",
     auto_build |-> FALSE, auto_run |-> FALSE]

\* the list build() makes: a text and the 'Stop Alarm' button
StopAlarmLayout == "[[Text], [Button STOP_BUTTON]]"

\* AlarmWindow(auto_build, auto_run)
AlarmWindowInit(w, ab, ar) ==
    /\ ~windows[w].exists
    /\ windows' = [windows EXCEPT ![w] =
          [exists |-> TRUE, built |-> FALSE, layout |-> "None",
           auto_build |-> ab, auto_run |-> ar]]
    /\ olast' = Returned([Call("AlarmWindow") EXCEPT !.target = w])
    /\ UNCHANGED notWindow

\* (variant: a layout property that hands out __layout without looking at
\* built)
LayoutOutcomeNoCheck(win) == ""

\* the layout property's check
LayoutOutcome(win) == IF win.built THEN "" ELSE "WindowNotBuiltError"

\* window.layout is read
ReadLayout(w) ==
    /\ windows[w].exists
    /\ LET c == [Call("layout") EXCEPT !.target = w] IN
       olast' = IF LayoutOutcome(windows[w]) # ""
                THEN Raised(c, LayoutOutcome(windows[w]))
                ELSE Returned([c EXCEPT !.result = windows[w].layout])
    /\ UNCHANGED <<windows, notWindow>>

\* (variant: a build that does not look at built)
BuildOutcomeNoCheck(win) == ""

\* build()'s check
BuildOutcome(win) == IF win.built THEN "WindowAlreadyBuiltError" ELSE ""

\* window.build()
Build(w) ==
    /\ windows[w].exists
    /\ LET c == [Call("build") EXCEPT !.target = w] IN
       IF BuildOutcome(windows[w]) # ""
       THEN /\ olast' = Raised(c, BuildOutcome(windows[w]))
            /\ UNCHANGED windows
       ELSE /\ windows' = [windows EXCEPT ![w].layout = StopAlarmLayout,
                                          ![w].built = TRUE]
            /\ olast' = Returned(c)
    /\ UNCHANGED notWindow

-----------------------------------------------------------------------------
(* mqtt_stat.audio: AlarmAsset *)

AssetIds == 1 .. MaxAssets

\* alarm_event holds the name of the Event object the attribute refers to
NoAsset ==
    [exists |-> FALSE, alarm_event |-> "", interval |-> 0, volume_increment |-> 0,
     volume_start |-> 0, volume_max |-> 0]

\* Event.is_set() of the Event object called ev; the class creates one Event,
\* the class attribute ALARM_EVENT
IsSet(ev) == ev = "ALARM_EVENT" /\ ALARM_EVENT

\* AlarmAsset(encrypted_audio_path, interval, volume_increment, volume_start,
\* volume_max): the VolumeControl it builds raises for a bad increment
AlarmAssetInit(a, kw) ==
    /\ ~assets[a].exists
    /\ LET inc == KwArg(kw, "volume_increment", VolDefaultIncrement)
           maxv == KwArg(kw, "volume_max", VolDefaultMax)
           c == [Call("AlarmAsset") EXCEPT !.target = a, !.kw = kw]
       IN  IF IncrementCheck(inc, maxv) # ""
           THEN /\ olast' = Raised(c, IncrementCheck(inc, maxv))
                /\ UNCHANGED assets
           ELSE /\ assets' = [assets EXCEPT ![a] =
                      [exists |-> TRUE, alarm_event |-> "ALARM_EVENT",
                       interval |-> KwArg(kw, "interval", AssetDefaultInterval),
                       volume_increment |-> inc,
                       volume_start |-> KwArg(kw, "volume_start", VolDefaultStart),
                       volume_max |-> maxv]]
                /\ olast' = Returned(c)
    /\ UNCHANGED <<ALARM_EVENT, notAsset>>

\* asset.alarm_event.set() (b = TRUE) or asset.alarm_event.clear() (b = FALSE)
AssetEvent(a, b) ==
    /\ assets[a].exists
    /\ ALARM_EVENT' = IF assets[a].alarm_event = "ALARM_EVENT" THEN b ELSE ALARM_EVENT
    /\ olast' = Returned([Call(IF b THEN "set" ELSE "clear") EXCEPT !.target = a])
    /\ UNCHANGED <<assets, notAsset>>

\* the objects before any of them is made
NoObjects ==
    /\ mixer = VolOne
    /\ vc = NoVolumeControl
    /\ windows = [w \in WindowIds |-> NoWindow]
    /\ ALARM_EVENT = FALSE
    /\ assets = [a \in AssetIds |-> NoAsset]
    /\ olast = NoCall

-----------------------------------------------------------------------------
(* The agent *)

\* Nothing in the agent binds the audio module's global `sound`, so here
\* play_sound raises NameError and no alarm thread reaches its sleep; the
\* ramp is covered by SpecAlarm below.
Init ==
    /\ self = <<>>
    /\ calls = <<>>
    /\ pc = [c \in Contexts |-> "idle"]
    /\ last = [c \in Contexts |-> NoHandler]
    /\ \E s \in Snapshots : battery = s[1] /\ ssid = s[2]
    /\ alarm_event = FALSE
    /\ threads = [t \in ThreadIds |-> FreeThread]
    /\ snd_thread = [c \in Contexts |-> 0]
    /\ sound = "unbound"
    /\ stdin \in {"tty", "closed"}
    /\ kwargs = FindKwargs
    /\ NoObjects

Next ==
    \/ MQTTClientInit
    \/ Run
    \/ \E data \in PublishData : Publish(data)
    \/ \E command \in Commands, data \in DataKeys : ExecuteCommand(command, data)
    \/ \E rc \in ReturnCodes : OnConnect(rc)
    \/ \E p \in Payloads : OnMessage(p)
    \/ Disconnect
    \/ ProviderChange
    \/ \E t \in ThreadIds : AlarmEnter(t) \/ AlarmTest(t) \/ AlarmPlay(t)
    \/ StartAlarmTest("svc")
    \/ StartAlarmEnter("svc")
    \/ StartAlarmInterrupt("svc")
    \/ StartAlarmEOF("svc")
    \/ StartAlarmJoin("svc")

Spec == Init /\ [][Next]_vars

-----------------------------------------------------------------------------
(* The audio module used directly: start_alarm called from either context *)

Intervals == {0, 3}
Increments == {-1, 0, 10}
Starts == {0, 15, 21}
Maxes == {0, 10, 20, 21}

KwargSets ==
    [interval : Intervals, volume_increment : Increments,
     volume_start : Starts, volume_max : Maxes]

StartAlarm(c) ==
    /\ pc[c] = "idle"
    /\ start_alarm(c, kwargs, Handler(c, "start_alarm"))
    /\ UNCHANGED <<clientVars, envVars>>

\* rearm_alarm(): sleep(delay_duration) unless no_delay, then
\* alarm_event.clear(); last keeps the latest start_alarm call of c
RearmAlarm(c) ==
    /\ pc[c] = "idle"
    /\ alarm_event' = FALSE
    /\ UNCHANGED <<clientVars, pc, last, threads, snd_thread, envVars>>

InitAlarm ==
    /\ self = <<>>
    /\ calls = <<>>
    /\ pc = [c \in Contexts |-> "idle"]
    /\ last = [c \in Contexts |-> NoHandler]
    /\ battery = PyNone
    /\ ssid = "HomeNet"
    /\ alarm_event = FALSE
    /\ threads = [t \in ThreadIds |-> FreeThread]
    /\ snd_thread = [c \in Contexts |-> 0]
    /\ sound \in {"bound", "unbound"}
    /\ stdin \in {"tty", "closed"}
    /\ kwargs \in KwargSets
    /\ NoObjects

NextAlarm ==
    \/ \E c \in Contexts : StartAlarm(c)
    \/ \E c \in Contexts : RearmAlarm(c)
    \/ \E t \in ThreadIds : AlarmEnter(t) \/ AlarmTest(t) \/ AlarmPlay(t)
    \/ \E t \in ThreadIds : AlarmTick(t) \/ AlarmSleep(t)
    \/ \E c \in Contexts : StartAlarmTest(c)
    \/ \E c \in Contexts : StartAlarmEnter(c)
    \/ \E c \in Contexts : StartAlarmInterrupt(c)
    \/ \E c \in Contexts : StartAlarmEOF(c)
    \/ \E c \in Contexts : StartAlarmJoin(c)

SpecAlarm == InitAlarm /\ [][NextAlarm]_vars

\* start_alarm() called again and again with one ramp that alarm() accepts
RestartKwargs ==
    [interval |-> 1, volume_increment |-> 10, volume_start |-> 10, volume_max |-> 20]

InitRestart ==
    /\ self = <<>>
    /\ calls = <<>>
    /\ pc = [c \in Contexts |-> "idle"]
    /\ last = [c \in Contexts |-> NoHandler]
    /\ battery = PyNone
    /\ ssid = "HomeNet"
    /\ alarm_event = FALSE
    /\ threads = [t \in ThreadIds |-> FreeThread]
    /\ snd_thread = [c \in Contexts |-> 0]
    /\ sound \in {"bound", "unbound"}
    /\ stdin \in {"tty", "closed"}
    /\ kwargs = RestartKwargs
    /\ NoObjects

SpecRestart == InitRestart /\ [][NextAlarm]_vars

\* start_alarm() called by one caller, with ramps that alarm() accepts
\* (volume_start above volume_max among them) and ramps that it rejects
RampIntervals == {1}
RampIncrements == {0, 5, 10}
RampStarts == {0, 15, 21}
RampMaxes == {10, 20}

RampKwargSets ==
    [interval : RampIntervals, volume_increment : RampIncrements,
     volume_start : RampStarts, volume_max : RampMaxes]

InitRamp ==
    /\ self = <<>>
    /\ calls = <<>>
    /\ pc = [c \in Contexts |-> "idle"]
    /\ last = [c \in Contexts |-> NoHandler]
    /\ battery = PyNone
    /\ ssid = "HomeNet"
    /\ alarm_event = FALSE
    /\ threads = [t \in ThreadIds |-> FreeThread]
    /\ snd_thread = [c \in Contexts |-> 0]
    /\ sound \in {"bound", "unbound"}
    /\ stdin \in {"tty", "closed"}
    /\ kwargs \in RampKwargSets
    /\ NoObjects

NextRamp ==
    \/ StartAlarm("svc")
    \/ StartAlarmTest("svc")
    \/ StartAlarmEnter("svc")
    \/ StartAlarmInterrupt("svc")
    \/ StartAlarmEOF("svc")
    \/ StartAlarmJoin("svc")
    \/ RearmAlarm("svc")
    \/ \E t \in ThreadIds : AlarmEnter(t) \/ AlarmTest(t) \/ AlarmPlay(t)
    \/ \E t \in ThreadIds : AlarmTick(t) \/ AlarmSleep(t)

SpecRamp == InitRamp /\ [][NextRamp]_vars

\* a started alarm thread is scheduled, and play_sound and sleep(interval)
\* come to an end
AlarmRuns(t) ==
    AlarmEnter(t) \/ AlarmTest(t) \/ AlarmPlay(t) \/ AlarmTick(t) \/ AlarmSleep(t)

\* ramps that alarm() accepts: with and without an increment, volume_start
\* below and above volume_max
FairIncrements == {0, 5}
FairStarts == {0, 15}
FairMaxes == {10}

InitRampFair ==
    /\ InitRamp
    /\ kwargs \in [interval : RampIntervals, volume_increment : FairIncrements,
                   volume_start : FairStarts, volume_max : FairMaxes]

SpecRampFair ==
    /\ InitRampFair
    /\ [][NextRamp]_vars
    /\ \A t \in ThreadIds : WF_vars(AlarmRuns(t))

-----------------------------------------------------------------------------
(* The classes used on their own *)

\* the agent and the alarm functions at rest
AtRest ==
    /\ self = <<>>
    /\ calls = <<>>
    /\ pc = [c \in Contexts |-> "idle"]
    /\ last = [c \in Contexts |-> NoHandler]
    /\ battery = PyNone
    /\ ssid = "HomeNet"
    /\ alarm_event = FALSE
    /\ threads = [t \in ThreadIds |-> FreeThread]
    /\ snd_thread = [c \in Contexts |-> 0]
    /\ sound = "unbound"
    /\ stdin = "tty"
    /\ kwargs = FindKwargs

\* the values passed for volumes, increments and decrements
VolArgs == {-2, 0, 2, 10, 20, 30}
\* the volume the Sound has when the VolumeControl gets it
MixerStarts == {0, 10, 20}
\* the keyword arguments passed to VolumeControl: any of the three may be
\* left out
StartVolumes == {10}
MaxVolumes == {10, 30}
IncrementArgs == {0, 2, 10}
Without(kw, key) == [k \in DOMAIN kw \ {key} |-> kw[k]]
Optional(kws, key) == kws \cup {Without(kw, key) : kw \in kws}
VolumeControlKwargs ==
    Optional(Optional(Optional(
        [start_volume : StartVolumes, max_volume : MaxVolumes, increment : IncrementArgs],
        "start_volume"), "max_volume"), "increment")

InitVolumeControl ==
    /\ AtRest
    /\ mixer \in MixerStarts
    /\ vc = NoVolumeControl
    /\ windows = [w \in WindowIds |-> NoWindow]
    /\ ALARM_EVENT = FALSE
    /\ assets = [a \in AssetIds |-> NoAsset]
    /\ olast = NoCall

NextVolumeControl ==
    \/ \E kw \in VolumeControlKwargs : VolumeControlInit(kw)
    \/ \E new \in VolArgs : SetIncrement(new)
    \/ \E new \in VolArgs : SetMaxVolume(new)
    \/ \E new \in VolArgs : SetVolume(new)
    \/ \E d \in VolArgs : decrease_volume(d)
    \/ \E i \in VolArgs : increase_volume(i)
    \/ \E v \in VolArgs : set_volume(v)

SpecVolumeControl == InitVolumeControl /\ [][NextVolumeControl]_vars

InitWindow == AtRest /\ NoObjects

NextWindow ==
    \/ \E w \in WindowIds, ab \in BOOLEAN, ar \in BOOLEAN : AlarmWindowInit(w, ab, ar)
    \/ \E w \in WindowIds : ReadLayout(w)
    \/ \E w \in WindowIds : Build(w)

SpecWindow == InitWindow /\ [][NextWindow]_vars

AssetIncrements == {2, 20}
AssetMaxes == {10, 20}
AssetKwargs ==
    {<<>>} \cup [volume_increment : AssetIncrements, volume_max : AssetMaxes]

InitAsset == AtRest /\ NoObjects

NextAsset ==
    \/ \E a \in AssetIds, kw \in AssetKwargs : AlarmAssetInit(a, kw)
    \/ \E a \in AssetIds, b \in BOOLEAN : AssetEvent(a, b)

SpecAsset == InitAsset /\ [][NextAsset]_vars

-----------------------------------------------------------------------------
(* Properties of the connection handlers *)

Svc == last["svc"]
Indexes == 1 .. Len(calls)

OfflineWill ==
    [op |-> "will_set", topic |-> "client/lwt", payload |-> "{\"status\": \"offline\"}",
     qos |-> 1, retain |-> TRUE]
BirthPublish ==
    [op |-> "publish", topic |-> "client/birth", payload |-> "{\"status\": \"online\"}",
     qos |-> 1, retain |-> TRUE]
ListenSubscribe == [op |-> "subscribe", topic |-> "sensors/temperature"]

IsBirth(e) == e.op = "publish" /\ e.topic = "client/birth"
IsSubscribe(e) == e.op = "subscribe"

\* C1: every connect call on the client comes after the registration of the
\* last will {"status": "offline"} (QoS 1, retained) on the LWT topic.
C1_WillBeforeConnect ==
    \A i \in Indexes :
        calls[i].op = "connect" => \E j \in 1 .. (i - 1) : calls[j] = OfflineWill

C1_Witness ==
    \E i \in Indexes : calls[i].op = "connect"

\* the steps of on_connect
OnConnectStep(rc) ==
    /\ Svc'.tick # Svc.tick
    /\ Svc'.handler = "on_connect"
    /\ Svc'.rc = rc

\* C2: an on_connect with return code 0 publishes the retained QoS 1 birth
\* message {"status": "online"} and then subscribes to the listen topic, on
\* the first connect and on every later one; a birth publish or a subscribe
\* is made by no other step.
C2_BirthThenSubscribe ==
    /\ [](/\ (Svc.handler = "on_connect" /\ Svc.rc = 0) =>
                /\ Len(calls) >= 2
                /\ calls[Len(calls) - 1] = BirthPublish
                /\ calls[Len(calls)] = ListenSubscribe
          /\ \A i \in Indexes :
                /\ IsSubscribe(calls[i]) => i > 1 /\ calls[i - 1] = BirthPublish
                /\ IsBirth(calls[i]) => i < Len(calls) /\ calls[i + 1] = ListenSubscribe)
    /\ [][(\E i \in (Len(calls) + 1) .. Len(calls') :
                IsBirth(calls'[i]) \/ IsSubscribe(calls'[i]))
            => OnConnectStep(0)]_vars

\* a reconnect: the second acknowledged connection
C2_Witness ==
    /\ Svc.handler = "on_connect"
    /\ Svc.rc = 0
    /\ Cardinality({i \in Indexes : IsSubscribe(calls[i])}) = 2

-----------------------------------------------------------------------------
(* Properties of the message and command handlers *)

\* the steps of execute_command(command, data)
ExecuteStep(command) ==
    /\ Svc'.tick # Svc.tick
    /\ Svc'.handler = "execute_command"
    /\ Svc'.cmd = command

CarriesCommand(p) ==
    /\ JsonLoads(p).exc = ""
    /\ JsonLoads(p).kind = "dict"
    /\ "command" \in DOMAIN JsonLoads(p).dict

\* C4 as stated: on_message hands every decoded envelope that carries a
\* command name to execute_command exactly once.
C4_CommandDispatched ==
    (Svc.handler = "on_message" /\ CarriesCommand(Svc.payload)) =>
        /\ Svc.dispatched = 1
        /\ Svc.outcome = "returned"

\* the reply the claim describes, as json.dumps writes it
ExpectedReply(b, s) ==
    "{\"status\": \"responded\", \"network_ssid\": \"" \o s
    \o "\", \"battery_level\": " \o ToString(b.percent)
    \o ", \"battery_charging\": " \o (IF b.power_plugged THEN "true" ELSE "false")
    \o "}"

HomeNetReply ==
    "{\"status\": \"responded\", \"network_ssid\": \"HomeNet\", \"battery_level\": 87, \"battery_charging\": true}"

IsReply(e) == e.op = "publish" /\ e.topic = "sensors/response"

C6_MalformedDiscarded ==
    (Svc.handler = "on_message" /\ JsonLoads(Svc.payload).exc # "") =>
        /\ Svc.outcome = "returned"
        /\ Svc.ncalls = 0
        /\ Svc.dispatched = 0
        /\ pc["svc"] = "loop"

\* C7: execute_command with a name other than get_status and find returns
\* without raising, whatever the data, and calls nothing on the client and
\* starts no alarm.
C7_UnknownCommandNoOp ==
    /\ []((Svc.handler = "execute_command" /\ Svc.cmd \notin {"get_status", "find"}) =>
            /\ Svc.outcome = "returned"
            /\ Svc.ncalls = 0
            /\ Svc.started = 0)
    /\ [][\A command \in Commands \ {"get_status", "find"} :
            ExecuteStep(command) =>
                /\ calls' = calls
                /\ threads' = threads
                /\ alarm_event' = alarm_event
                /\ pc' = pc]_vars

C7_Witness ==
    /\ Svc.handler = "execute_command"
    /\ Svc.cmd = "reboot"
    /\ Svc.data = {"volume"}
    /\ Svc.outcome = "returned"

-----------------------------------------------------------------------------
(* Properties of the alarm *)

RingingThreads == {t \in ThreadIds : Ringing(threads[t])}

\* C8 as stated: at most one alarm thread is in its playback loop at any
\* time.
C8_AtMostOneAlarm ==
    Cardinality(RingingThreads) <= 1

\* C9 as stated: while an alarm rings, its volume is in [0, volume_max].
C9_VolumeInRange ==
    \A t \in ThreadIds :
        Ringing(threads[t]) =>
            0 <= threads[t].volume /\ threads[t].volume <= threads[t].volume_max

\* C10 as stated: the first iteration plays at volume_start, each later one
\* at min(previous + volume_increment, volume_max), and the volume never
\* decreases from one iteration to the next.
C10_RampRecurrence ==
    \A t \in ThreadIds :
        Ringing(threads[t]) =>
            LET th == threads[t] IN
            IF th.prev = -1 THEN th.volume = th.volume_start
            ELSE /\ th.volume = Min(th.prev + th.volume_increment, th.volume_max)
                 /\ th.volume >= th.prev

\* the constraints the alarm's parameters are to meet
ValidRamp(kw) ==
    /\ kw.interval > 0
    /\ 0 < kw.volume_increment /\ kw.volume_increment < kw.volume_max
    /\ 0 <= kw.volume_start /\ kw.volume_start <= kw.volume_max
    /\ 0 < kw.volume_max /\ kw.volume_max <= VolOne

\* C11 as stated: start_alarm with parameters outside the constraints ends
\* with an invalid-parameter error for its caller, who is not left blocked,
\* and no alarm thread enters the playback loop.
C11_InvalidRejected ==
    \A c \in Contexts :
        (last[c].handler = "start_alarm" /\ ~ValidRamp(kwargs)) =>
            /\ last[c].outcome = "ValueError"
            /\ pc[c] = "idle"
            /\ RingingThreads = {}

\* the steps in which context c sets the alarm event
StopStep(c) ==
    /\ pc[c] = "sa_input"
    /\ pc'[c] = "sa_test"
    /\ alarm_event'

\* C12 as stated: an alarm thread that was ringing when the event was set
\* starts no further play-and-wait cycle once the cycle in progress has
\* ended; setting the event while no alarm rings changes no thread and ends
\* no call with an error.
C12_StopEndsRinging ==
    [][/\ \A t \in ThreadIds :
            (threads[t].stopped /\ threads[t].pc = "test") => threads'[t].pc # "play"
       /\ \A c \in Contexts :
            (StopStep(c) /\ RingingThreads = {}) =>
                /\ threads' = threads
                /\ last' = last]_vars

-----------------------------------------------------------------------------
(* Properties of the servicing context *)

InStartAlarm(c) == pc[c] \in {"sa_test", "sa_input", "sa_join"}

\* C13 as stated: the handling of a find command has returned, and the
\* servicing context is not inside start_alarm, while the alarm it started
\* is still there to ring.
C13_FindDoesNotBlock ==
    (Svc.handler = "execute_command" /\ Svc.cmd = "find" /\ Svc.data = {}) =>
        /\ Svc.started = 1
        /\ Svc.outcome = "returned"
        /\ ~InStartAlarm("svc")

\* the network provider's value when there is no network name
NoNetwork == "Not connected to a network."

\* the reply the claim describes when fields are absent
MarkedReply(b, s) ==
    "{\"status\": \"responded\", \"network_ssid\": \""
    \o (IF s = NoNetwork THEN "unavailable" ELSE s)
    \o "\", \"battery_level\": "
    \o (IF b = PyNone THEN "\"unavailable\"" ELSE ToString(b.percent))
    \o ", \"battery_charging\": "
    \o (IF b = PyNone THEN "\"unavailable\""
        ELSE IF b.power_plugged THEN "true" ELSE "false")
    \o "}"

\* C14 as stated: a get_status command handled while the battery or the
\* network name is absent raises nothing and makes exactly one publish, on
\* the reply topic, with "unavailable" in the place of each absent field.
C14_AbsentMarked ==
    [][(ExecuteStep("get_status") /\ Svc'.data = {}
            /\ (battery = PyNone \/ ssid = NoNetwork)) =>
        LET new == SubSeq(calls', Len(calls) + 1, Len(calls')) IN
        /\ Svc'.outcome \in {"returned", "blocked"}
        /\ Cardinality({i \in 1 .. Len(new) : new[i].op = "publish"}) = 1
        /\ Len(new) >= 1
        /\ new[1] = [op |-> "publish", topic |-> "sensors/response",
                     payload |-> MarkedReply(battery, ssid), qos |-> 1, retain |-> FALSE]]_vars

\* C15 as stated: on_message of a payload that decodes as JSON returns
\* without raising, and the servicing context stays in the network loop.
C15_NoFatalMessage ==
    (Svc.handler = "on_message" /\ JsonLoads(Svc.payload).exc = "") =>
        /\ Svc.outcome = "returned"
        /\ pc["svc"] = "loop"

\* C16 as stated: after an unexpected disconnection the connection state is
\* Reconnecting and the reconnect delay set on the client starts at 1 s and
\* is capped at 60 s.
C16_ReconnectBackoff ==
    (Svc.handler = "disconnect") =>
        /\ "state" \in DOMAIN self
        /\ self.state = "Reconnecting"
        /\ \E i \in Indexes :
              /\ calls[i].op = "reconnect_delay_set"
              /\ calls[i].min_delay = 1
              /\ calls[i].max_delay = 60

\* C18 as stated: a call of publish(data) makes one call on the client, the
\* QoS 1 publish of the JSON-encoded data on the reply topic, and has then
\* returned to its caller.
C18_PublishReturns ==
    (Svc.handler = "publish") =>
        /\ Svc.ncalls = 1
        /\ calls[Len(calls)].op = "publish"
        /\ calls[Len(calls)].topic = "sensors/response"
        /\ calls[Len(calls)].payload = "{\"status\": \"alerted\"}"
        /\ calls[Len(calls)].qos = 1
        /\ Svc.outcome = "returned"
        /\ pc["svc"] = "idle"

\* interval = 1.5 s, volume_increment = 0.05, volume_start = 0.05 and
\* volume_max = 1.0, in the model's units
HasDefaultRamp(th) ==
    /\ th.interval = 3
    /\ th.volume_increment = 1
    /\ th.volume_start = 1
    /\ th.volume_max = 20

\* C19 as stated: every find command, whatever data comes with it, starts an
\* alarm thread whose parameters are the default ramp.
C19_FindDefaultRamp ==
    [][ExecuteStep("find") =>
        \E t \in ThreadIds :
            /\ threads[t].pc = "free"
            /\ threads'[t].pc = "start"
            /\ HasDefaultRamp(threads'[t])]_vars

\* C20 as stated: run() on a constructed MQTTClient has made two calls on
\* the client, connect to the configured broker and port and then
\* loop_forever, and is in the network loop.
C20_RunConnectsThenLoops ==
    (Svc.handler = "run") =>
        /\ Svc.outcome = "blocked"
        /\ pc["svc"] = "loop"
        /\ Svc.ncalls = 2
        /\ Len(calls) >= 2
        /\ calls[Len(calls) - 1].op = "connect"
        /\ calls[Len(calls) - 1].host = "mqtt.example.com"
        /\ calls[Len(calls) - 1].port = 1883
        /\ calls[Len(calls)] = [op |-> "loop_forever"]

\* C26: for a recognized command execute_command invokes the handler exactly
\* once, whatever keys the data mapping has: no exception comes from the call
\* of the handler itself
C26_RecognizedInvoked ==
    (Svc.handler = "execute_command" /\ Svc.cmd \in commands) => Svc.invoked = 1

\* C32: servicing a command opens no broker session: a connect or
\* loop_forever call on the client is made by the start-up path (run) only,
\* never by publish, get_status or another handler
C32_ConnectOnlyAtStartup ==
    [][\A i \in (Len(calls) + 1) .. Len(calls') :
          calls'[i].op \in {"connect", "loop_forever"} => Svc'.handler = "run"]_vars

-----------------------------------------------------------------------------
(* Properties of VolumeControl *)

\* the steps that are a call of operation op on an object
CallStep(op) ==
    /\ olast'.tick # olast.tick
    /\ olast'.op = op

\* the increment and the max_volume a construction with kw works with: 0.1
\* and 1.0 where none is given
GivenIncrement(kw) == IF "increment" \in DOMAIN kw THEN kw.increment ELSE 2
GivenMaxVolume(kw) == IF "max_volume" \in DOMAIN kw THEN kw.max_volume ELSE 20

\* C21: a construction of a VolumeControl whose increment is not above 0 or
\* not below max_volume ends with ValueError, makes no object and leaves the
\* sound's volume as it was.
C21_BadIncrementRejected ==
    [][(/\ CallStep("VolumeControl")
        /\ \/ GivenIncrement(olast'.kw) <= 0
           \/ GivenIncrement(olast'.kw) >= GivenMaxVolume(olast'.kw))
       => /\ olast'.outcome = "ValueError"
          /\ mixer' = mixer
          /\ vc' = vc]_vars

\* an increment equal to max_volume is refused while an earlier object exists
C21_Witness ==
    /\ olast.op = "VolumeControl"
    /\ olast.outcome = "ValueError"
    /\ olast.kw = [max_volume |-> 10, increment |-> 10]
    /\ vc.exists

\* C24: set_volume(v) returns and leaves the volume at
\* max(0, min(max_volume, v)), and decrease_volume never leaves the volume
\* below 0
C24_SetVolumeClamps ==
    [][/\ CallStep("set_volume") =>
            /\ olast'.outcome = "returned"
            /\ volume' = Max(0, Min(vc.max_volume, olast'.arg))
            /\ volume' >= 0
            /\ volume' <= vc.max_volume
       /\ CallStep("decrease_volume") => volume' >= 0]_vars

GivenStartVolume(kw) == IF "start_volume" \in DOMAIN kw THEN kw.start_volume ELSE 2

\* C28: right after VolumeControl is constructed with a start_volume s in
\* [0, max_volume], or with none and the default 0.1, the volume is s,
\* whatever volume the sound had
C28_StartVolumeApplied ==
    [][(/\ CallStep("VolumeControl")
        /\ olast'.outcome = "returned"
        /\ GivenStartVolume(olast'.kw) >= 0
        /\ GivenStartVolume(olast'.kw) <= GivenMaxVolume(olast'.kw))
       => volume' = GivenStartVolume(olast'.kw)]_vars

\* C29: every VolumeControl that exists has 0 < increment < max_volume <= 1
C29_IncrementBelowMax ==
    vc.exists => /\ 0 < vc.increment
                 /\ vc.increment < vc.max_volume
                 /\ vc.max_volume <= VolOne

VolumeOps ==
    {"set_volume", "increase_volume", "decrease_volume", "volume", "increment",
     "max_volume"}

\* C31: no VolumeControl operation, successful or rejected, takes the volume
\* out of [0, max_volume]: when the volume is in the range before the
\* operation it is in the range after it, also when max_volume is lowered
C31_VolumeWithinMax ==
    [][(/\ olast'.tick # olast.tick
        /\ olast'.op \in VolumeOps
        /\ 0 <= volume
        /\ volume <= vc.max_volume)
       => /\ 0 <= volume'
          /\ volume' <= vc'.max_volume]_vars

-----------------------------------------------------------------------------
(* Properties of restarting the alarm *)

\* the alarm thread t leaves its loop at the first test, before it has played
LeavesUnplayed(t) ==
    /\ threads[t].pc = "test"
    /\ threads[t].prev = -1
    /\ ~Ringing(threads'[t])

\* C22: a stop signal of an earlier session never keeps a newly started
\* session from playing its first iteration: an alarm thread leaves its loop
\* unplayed only when the event was set after its own start_alarm call, and
\* every start_alarm call leaves the event clear, however many sessions came
\* before
C22_RestartRingsAgain ==
    [][/\ \A t \in ThreadIds :
            LeavesUnplayed(t) => threads[t].stopped \/ threads[t].early
       /\ \A c \in Contexts :
            (pc[c] = "idle" /\ pc'[c] = "sa_test") => ~alarm_event']_vars

\* svc is in its second session, the first was ended by Enter and joined, and
\* the new alarm thread has played its first iteration
C22_Witness ==
    /\ last["svc"].handler = "start_alarm"
    /\ last["svc"].tick = 0
    /\ last["app"] = NoHandler
    /\ stdin = "tty"
    /\ pc["svc"] = "sa_input"
    /\ snd_thread["svc"] \in ThreadIds
    /\ threads[snd_thread["svc"]].pc = "sleep"
    /\ \A t \in ThreadIds \ {snd_thread["svc"]} : threads[t].pc = "free"

\* C25: the wait between iterations is interruptible: once the event is set
\* an alarm thread that is waiting out its interval waits no further, its
\* next step is to terminate
C25_WaitInterruptible ==
    [][\A t \in ThreadIds :
          (/\ threads[t].pc = "sleep"
           /\ alarm_event
           /\ \/ threads'[t].pc # "sleep"
              \/ threads'[t].left # threads[t].left)
          => ~Ringing(threads'[t])]_vars

\* C30: a stop signal set while an alarm thread is running is never lost:
\* the event stays set until every thread it was set for has left its loop,
\* whatever rearm_alarm and start_alarm calls come in between
C30_StopNotLost ==
    [][\A t \in ThreadIds :
          (/\ threads[t].stopped
           /\ alarm_event
           /\ Ringing(threads[t])
           /\ Ringing(threads'[t]))
          => alarm_event']_vars

\* start_alarm, called by c, returns
ReturnStep(c) ==
    /\ InStartAlarm(c)
    /\ pc'[c] = "idle"
    /\ last'[c].outcome = "returned"

PassesValidation(th) ==
    /\ th.interval > 0
    /\ \A v \in {th.volume_increment, th.volume_start, th.volume_max} :
          0 <= v /\ v <= VolOne

\* C34: for parameters that pass alarm()'s validation every volume handed to
\* play_sound is in [0, 1], in every iteration
C34_PlayedVolumeInUnit ==
    \A t \in ThreadIds :
        (threads[t].pc = "play" /\ PassesValidation(threads[t]))
            => 0 <= threads[t].volume /\ threads[t].volume <= VolOne

\* a later iteration is about to play at 1.0, where the cap has cut
\* 0.75 + 0.5
C34_Witness ==
    \E t \in ThreadIds :
        /\ threads[t].pc = "play"
        /\ threads[t].volume_start = 15
        /\ threads[t].volume_increment = 10
        /\ threads[t].prev = 15
        /\ threads[t].volume = VolOne

\* the alarm thread t is about to play at volume_max
PlaysAtMax(t) ==
    /\ threads[t].pc = "play"
    /\ threads[t].volume = threads[t].volume_max

-----------------------------------------------------------------------------
(* Properties of AlarmWindow *)

\* C23: reading layout of a window that is not built raises
\* WindowNotBuiltError and reading it of a built window returns the layout;
\* build on a window that is not built sets built and stores the layout;
\* build on a built window raises WindowAlreadyBuiltError and changes
\* nothing; built never goes back from True to False
C23_BuildAndLayout ==
    [][/\ CallStep("layout") =>
            LET w == olast'.target IN
            IF windows[w].built
            THEN /\ olast'.outcome = "returned"
                 /\ olast'.result = StopAlarmLayout
                 /\ windows' = windows
            ELSE /\ olast'.outcome = "WindowNotBuiltError"
                 /\ windows' = windows
       /\ CallStep("build") =>
            LET w == olast'.target IN
            IF windows[w].built
            THEN /\ olast'.outcome = "WindowAlreadyBuiltError"
                 /\ windows' = windows
            ELSE /\ olast'.outcome = "returned"
                 /\ windows'[w].built
                 /\ windows'[w].layout = StopAlarmLayout
       /\ \A w \in WindowIds : windows[w].built => windows'[w].built]_vars

\* a second build() on a built window has raised
C23_Witness ==
    /\ olast.op = "build"
    /\ olast.outcome = "WindowAlreadyBuiltError"
    /\ windows[olast.target].built
    /\ windows[olast.target].layout = StopAlarmLayout

-----------------------------------------------------------------------------
(* Properties of AlarmAsset *)

\* C27: the alarm event is scoped to one AlarmAsset: setting or clearing the
\* alarm event of one asset never changes what is_set() gives on the alarm
\* event of another
C27_EventPerAsset ==
    [][\A a, b \in AssetIds :
          (/\ a # b
           /\ CallStep("set") \/ CallStep("clear")
           /\ olast'.target = a
           /\ assets[b].exists)
          => IsSet(assets[b].alarm_event)' = IsSet(assets[b].alarm_event)]_vars
====
